---- MODULE Spec2Model ----
(***************************************************************************)
(* Closed-loop tuning engine of Duet3Expansion: the PerformTune dispatcher *)
(* and the manoeuvres it steps (BasicTuning, EncoderCalibration, Step),    *)
(* one PerformTune call per control-loop tick.                             *)
(*                                                                         *)
(* Floating-point values are modelled in exact arithmetic, as reduced      *)
(* fractions <<numerator, denominator>> with a positive denominator.       *)
(***************************************************************************)
EXTENDS Integers, Sequences, FiniteSets, TLC

(***************************************************************************)
(* Bounds of the model                                                     *)
(***************************************************************************)
\* how many commands (start, abort, driver-mode change) one behaviour holds
MaxCommands == 3
\* reads of the quadrature counter in a run
MaxReads == 5
\* bytes in an SPI packet
MaxLen == 2
\* commands other than a start arrive within this many ticks of the last start
Window == 2
\* raw range of the modelled absolute encoder (AS5047D::GetMaxValue)
MaxValue == 12
\* spacing of the lookup-table buckets (AS5047D::GetLUTResolution)
LUTResolution == 4

(***************************************************************************)
(* Program constants                                                       *)
(***************************************************************************)
NumDummySteps == 8
PhaseIncrement == 8
NumSamples == 4096 \div PhaseIncrement

\* tuning errors (ClosedLoop.h)
TUNE_ERR_NOT_FOUND_POLARITY == 1
TUNE_ERR_NOT_ZEROED == 2
TUNE_ERR_NOT_CHECKED_POLARITY == 4
TUNE_ERR_NOT_CHECKED_CONTROL == 8
TUNE_ERR_NOT_CHECKED_ENCODER_STEPS == 16
TUNE_ERR_SYSTEM_ERROR == 128
TUNE_ERR_NOT_PERFORMED_MINIMAL_TUNE ==
    TUNE_ERR_NOT_FOUND_POLARITY + TUNE_ERR_NOT_ZEROED + TUNE_ERR_NOT_CHECKED_POLARITY
        + TUNE_ERR_NOT_CHECKED_CONTROL + TUNE_ERR_NOT_CHECKED_ENCODER_STEPS

\* tuning manoeuvres (ClosedLoop.h)
CONTINUOUS_PHASE_INCREASE_MANOEUVRE == 32
STEP_MANOEUVRE == 64
ZIEGLER_NICHOLS_MANOEUVRE == 128
POLARITY_DETECTION_MANOEUVRE == 1
ZEROING_MANOEUVRE == 2
POLARITY_CHECK == 4
CONTROL_CHECK == 8
ENCODER_STEPS_CHECK == 16
MINIMAL_TUNE ==
    POLARITY_DETECTION_MANOEUVRE + ZEROING_MANOEUVRE + POLARITY_CHECK + CONTROL_CHECK
        + ENCODER_STEPS_CHECK

\* Names used by Tuning.cpp whose declarations are not among the sources: the
\* basic-tuning and encoder-calibration request bits and the basic-tuning error
\* bit.  They are single bits, distinct from the three request bits above, hence
\* two of the five low (minimal-tune) bits; the error bit mirrors the request bit.
BASIC_TUNING_MANOEUVRE == POLARITY_DETECTION_MANOEUVRE
ENCODER_CALIBRATION_MANOEUVRE == ZEROING_MANOEUVRE
TUNE_ERR_NOT_DONE_BASIC == TUNE_ERR_NOT_FOUND_POLARITY

(***************************************************************************)
(* uint8_t bit operations                                                  *)
(***************************************************************************)
Pow2 == <<1, 2, 4, 8, 16, 32, 64, 128>>
Bit(x, i) == (x \div Pow2[i]) % 2
BitAnd(a, b) ==
    LET f[i \in 0..8] == IF i = 0 THEN 0 ELSE f[i - 1] + Pow2[i] * Bit(a, i) * Bit(b, i)
    IN f[8]
BitOr(a, b) == a + b - BitAnd(a, b)
\* a & ~b
BitClear(a, b) == a - BitAnd(a, b)

(***************************************************************************)
(* Exact arithmetic: a value w + n/d is <<w, n, d>> with 0 <= n < d, n/d in *)
(* lowest terms.  No intermediate result leaves the 32-bit integers.       *)
(***************************************************************************)
RECURSIVE GCD(_, _)
GCD(a, b) == IF b = 0 THEN a ELSE GCD(b, a % b)
\* w + n/d for any integers w, n and d > 0
RMake(w, n, d) ==
    LET r == n % d
        g == GCD(r, d)
    IN <<w + (n \div d), r \div g, d \div g>>
RNorm(n, d) == IF d < 0 THEN RMake(0, -n, -d) ELSE RMake(0, n, d)
RInt(n) == <<n, 0, 1>>
RAdd(a, b) ==
    LET g == GCD(a[3], b[3])
        l == (a[3] \div g) * b[3]
    IN RMake(a[1] + b[1], a[2] * (l \div a[3]) + b[2] * (l \div b[3]), l)
RNeg(a) == RMake(-a[1], -a[2], a[3])
RSub(a, b) == RAdd(a, RNeg(b))
\* <<q, r>> with k * n = q * d + r, for k >= 0 and 0 <= n < d
RECURSIVE MulDiv(_, _, _)
MulDiv(k, n, d) ==
    IF k = 0 THEN <<0, 0>>
    ELSE LET h == MulDiv(k \div 2, n, d)
             t == 2 * h[2] + (IF k % 2 = 1 THEN n ELSE 0)
         IN <<2 * h[1] + (t \div d), t % d>>
RMulNat(a, k) ==
    LET md == MulDiv(k, a[2], a[3])
    IN RMake(k * a[1] + md[1], md[2], a[3])
RMulInt(a, k) == IF k < 0 THEN RNeg(RMulNat(a, -k)) ELSE RMulNat(a, k)
\* a / m for an integer m > 0
RDivNat(a, m) == RMake(a[1] \div m, (a[1] % m) * a[3] + a[2], a[3] * m)
RMul(a, b) ==
    IF b[2] = 0 THEN RMulInt(a, b[1])
    ELSE RAdd(RMulInt(a, b[1]), RDivNat(RMulNat(a, b[2]), b[3]))
\* a / b for an integer-valued b # 0
RDiv(a, b) == IF b[1] > 0 THEN RDivNat(a, b[1]) ELSE RNeg(RDivNat(a, -b[1]))

\* C's % on int: the remainder takes the sign of the dividend
CRem(a, b) == IF a >= 0 THEN a % b ELSE -((-a) % b)

(***************************************************************************)
(* State                                                                   *)
(***************************************************************************)
VARIABLES
    tuning,                 \* ClosedLoop::tuning, the request bitmask (uint8_t)
    tuningError,            \* ClosedLoop::tuningError (uint8_t)
    newTuningMove,          \* static in PerformTune
    driverDirect,           \* SmartDrivers::GetDriverMode(0) == DriverMode::direct
    encoder,                \* "none" (nullptr), "relative" or "absolute"
    bt,                     \* BasicTuning's statics
    ec,                     \* EncoderCalibration's statics
    desiredStepPhase,       \* ClosedLoop::desiredStepPhase (uint16_t)
    forwardPolarity,        \* set by ClosedLoop::SetForwardPolarity
    targetMotorSteps,       \* moved by ClosedLoop::AdjustTargetMotorSteps
    lut,                    \* the absolute encoder's lookup table, as the stores made
    lutStores,              \* number of StoreLUT calls
    saves,                  \* the SaveBasicTuningResult calls since the last start
    finishedCalls,          \* number of FinishedBasicTuning calls since the last start
    motorPos,               \* the motor's position in phase counts (unwrapped)
    encK, encB,             \* the encoder: reading = encK * motorPos + encB
    phaseCmds,              \* phases passed to SetMotorPhase by the last operation
    lutOps,                 \* lookup-table operations invoked by the last operation
    called,                 \* manoeuvre stepped by the last operation
    calledFirst,            \* the firstIteration argument it was given
    finished,               \* the value it returned
    fresh,                  \* manoeuvres whose run has not been stepped yet
    op,                     \* the last operation
    prev,                   \* tuning, tuningError and fresh before the last operation
    request,                \* the mask of the last start command
    disturbed,              \* an abort or a failed precondition since the last start
    age,                    \* ticks since the last start, up to Window
    nCommands,              \* commands so far
    ecTicks,                \* EncoderCalibration steps since the last start
    btTicks,                \* BasicTuning steps since the last start
    btStartPhase,           \* desiredStepPhase before the first step of the BasicTuning run
    disturbance,            \* the error of the encoder's next reading
    twin,                   \* a second run of BasicTuning, its readings shifted by twin.offset
    pdec,                   \* the quadrature decoder: the counter and QuadratureEncoderPdec
    spi                     \* the shared SPI bus: the SERCOM registers, the devices, the last call

tuneVars == <<tuning, tuningError, newTuningMove, driverDirect, encoder, bt, ec,
          desiredStepPhase, forwardPolarity, targetMotorSteps,
          lut, lutStores, saves, finishedCalls, motorPos, encK, encB, phaseCmds, lutOps,
          called, calledFirst, finished, fresh, op, prev, request, disturbed, age, nCommands,
          ecTicks, btTicks, btStartPhase, disturbance, twin>>

vars == <<tuneVars, pdec, spi>>

\* what a manoeuvre step can change, with the phases it commanded and its result
Cur ==
    [bt |-> bt, ec |-> ec, desiredStepPhase |-> desiredStepPhase, motorPos |-> motorPos,
     forwardPolarity |-> forwardPolarity, targetMotorSteps |-> targetMotorSteps,
     lut |-> lut, lutStores |-> lutStores, saves |-> saves,
     finishedCalls |-> finishedCalls, phaseCmds |-> <<>>, lutOps |-> <<>>, ret |-> FALSE,
     disturbance |-> disturbance]

(***************************************************************************)
(* The idealized driver and encoder                                        *)
(***************************************************************************)
\* The motor follows the commanded electrical angle, which has period 4096: it
\* moves by the shortest way to the commanded phase.
MotorAfter(pos, phase) ==
    LET d == (phase - pos) % 4096
    IN pos + (IF d < 2048 THEN d ELSE d - 4096)

SetMotorPhase(m, phase) ==
    [m EXCEPT !.motorPos = MotorAfter(m.motorPos, phase),
              !.phaseCmds = Append(@, phase)]

\* encoder->GetReading() with the motor at pos: linear, and bounded for an
\* absolute encoder
GetReading(pos) ==
    IF encoder = "absolute" THEN (encK * pos + encB) % MaxValue
    ELSE encK * pos + encB

SaveBasicTuningResult(m, slope, origin, xMean, reverse) ==
    [m EXCEPT !.saves = Append(@, [slope |-> slope, origin |-> origin,
                                   xMean |-> xMean, reverse |-> reverse])]

FinishedBasicTuning(m) == [m EXCEPT !.finishedCalls = @ + 1]

\* ClosedLoop::currentEncoderReading: the control loop reads the encoder on every
\* tick before it calls PerformTune
currentEncoderReading == GetReading(motorPos)

(***************************************************************************)
(* BasicTuning                                                             *)
(***************************************************************************)
HalfNumSamplesMinusOne == RNorm(NumSamples - 1, 2)
Denominator == RNorm(PhaseIncrement * (NumSamples * NumSamples * NumSamples - NumSamples), 12)

\* mutant: the initial reading is never recorded, the raw readings are accumulated
Accumulate_NoInitial(m) ==
    LET reading == GetReading(m.motorPos) + m.disturbance
        ier == m.bt.initialEncoderReading
    IN [m EXCEPT !.bt.samples = @ + 1,
                 !.bt.readingAccumulator = @ + (reading - ier),
                 !.bt.regressionAccumulator =
                     RAdd(@, RMul(RInt(reading - ier),
                                  RSub(RInt(m.bt.stepCounter), HalfNumSamplesMinusOne)))]

\* the sample taken by a sweep step: the accumulators after it; bt.samples counts
\* the readings added to the accumulators since they were last zeroed
Accumulate(m) ==
    LET reading == GetReading(m.motorPos) + m.disturbance
        ier == IF m.bt.stepCounter = 0 THEN reading ELSE m.bt.initialEncoderReading
    IN [m EXCEPT !.bt.samples = @ + 1,
                 !.bt.initialEncoderReading = ier,
                 !.bt.readingAccumulator = @ + (reading - ier),
                 !.bt.regressionAccumulator =
                     RAdd(@, RMul(RInt(reading - ier),
                                  RSub(RInt(m.bt.stepCounter), HalfNumSamplesMinusOne)))]

BT_forwardInitial(m) ==
    LET p == (m.desiredStepPhase + PhaseIncrement) % 65536
        m1 == SetMotorPhase([m EXCEPT !.desiredStepPhase = p], p)
        c == m.bt.stepCounter + 1
    IN IF c = NumDummySteps
       THEN [m1 EXCEPT !.bt.regressionAccumulator = RInt(0),
                       !.bt.readingAccumulator = 0,
                       !.bt.samples = 0,
                       !.bt.stepCounter = 0,
                       !.bt.initialStepPhase = p,
                       !.bt.state = "forwards"]
       ELSE [m1 EXCEPT !.bt.stepCounter = c]

\* mutant: the forward sweep finalizes tuning as well
BT_forwards_Finishing(m) ==
    LET a == Accumulate(m)
    IN IF a.bt.stepCounter = NumSamples
       THEN LET yMean == RAdd(RNorm(a.bt.readingAccumulator, NumSamples),
                              RInt(a.bt.initialEncoderReading))
                slope == RDiv(a.bt.regressionAccumulator, Denominator)
                xMean == RAdd(RInt(a.bt.initialStepPhase),
                              RMul(RInt(PhaseIncrement), HalfNumSamplesMinusOne))
                origin == RSub(yMean, RMul(slope, xMean))
                s == SaveBasicTuningResult(a, slope, origin, xMean, FALSE)
            IN [FinishedBasicTuning(s) EXCEPT !.bt.stepCounter = 0,
                                              !.bt.state = "reverseInitial"]
       ELSE LET p == (a.desiredStepPhase + PhaseIncrement) % 65536
                a1 == SetMotorPhase([a EXCEPT !.desiredStepPhase = p], p)
            IN [a1 EXCEPT !.bt.stepCounter = @ + 1]

\* mutant: the forward sweep advances the phase on its last step as well
BT_forwards_MoveOnSave(m) ==
    LET a == Accumulate(m)
    IN IF a.bt.stepCounter = NumSamples
       THEN LET yMean == RAdd(RNorm(a.bt.readingAccumulator, NumSamples),
                              RInt(a.bt.initialEncoderReading))
                slope == RDiv(a.bt.regressionAccumulator, Denominator)
                xMean == RAdd(RInt(a.bt.initialStepPhase),
                              RMul(RInt(PhaseIncrement), HalfNumSamplesMinusOne))
                origin == RSub(yMean, RMul(slope, xMean))
                p == (a.desiredStepPhase + PhaseIncrement) % 65536
                a2 == SetMotorPhase([a EXCEPT !.desiredStepPhase = p], p)
                s == SaveBasicTuningResult(a2, slope, origin, xMean, FALSE)
            IN [s EXCEPT !.bt.stepCounter = 0, !.bt.state = "reverseInitial"]
       ELSE LET p == (a.desiredStepPhase + PhaseIncrement) % 65536
                a1 == SetMotorPhase([a EXCEPT !.desiredStepPhase = p], p)
            IN [a1 EXCEPT !.bt.stepCounter = @ + 1]

BT_forwards(m) ==
    LET a == Accumulate(m)
    IN IF a.bt.stepCounter = NumSamples
       THEN LET yMean == RAdd(RNorm(a.bt.readingAccumulator, NumSamples),
                              RInt(a.bt.initialEncoderReading))
                slope == RDiv(a.bt.regressionAccumulator, Denominator)
                xMean == RAdd(RInt(a.bt.initialStepPhase),
                              RMul(RInt(PhaseIncrement), HalfNumSamplesMinusOne))
                origin == RSub(yMean, RMul(slope, xMean))
                s == SaveBasicTuningResult(a, slope, origin, xMean, FALSE)
            IN [s EXCEPT !.bt.stepCounter = 0, !.bt.state = "reverseInitial"]
       ELSE LET p == (a.desiredStepPhase + PhaseIncrement) % 65536
                a1 == SetMotorPhase([a EXCEPT !.desiredStepPhase = p], p)
            IN [a1 EXCEPT !.bt.stepCounter = @ + 1]

\* mutant: the reverse settle hands over to the forward sweep
BT_reverseInitial_ToForwards(m) ==
    LET p == (m.desiredStepPhase - PhaseIncrement) % 65536
        m1 == SetMotorPhase([m EXCEPT !.desiredStepPhase = p], p)
        c == m.bt.stepCounter + 1
    IN IF c = NumDummySteps
       THEN [m1 EXCEPT !.bt.regressionAccumulator = RInt(0),
                       !.bt.readingAccumulator = 0,
                       !.bt.samples = 0,
                       !.bt.stepCounter = 0,
                       !.bt.initialStepPhase = p,
                       !.bt.state = "forwards"]
       ELSE [m1 EXCEPT !.bt.stepCounter = c]

BT_reverseInitial(m) ==
    LET p == (m.desiredStepPhase - PhaseIncrement) % 65536
        m1 == SetMotorPhase([m EXCEPT !.desiredStepPhase = p], p)
        c == m.bt.stepCounter + 1
    IN IF c = NumDummySteps
       THEN [m1 EXCEPT !.bt.regressionAccumulator = RInt(0),
                       !.bt.readingAccumulator = 0,
                       !.bt.samples = 0,
                       !.bt.stepCounter = 0,
                       !.bt.initialStepPhase = p,
                       !.bt.state = "reverse"]
       ELSE [m1 EXCEPT !.bt.stepCounter = c]

BT_reverse(m) ==
    LET a == Accumulate(m)
    IN IF a.bt.stepCounter = NumSamples
       THEN LET yMean == RAdd(RNorm(a.bt.readingAccumulator, NumSamples),
                              RInt(a.bt.initialEncoderReading))
                slope == RDiv(a.bt.regressionAccumulator, RNeg(Denominator))
                xMean == RSub(RInt(a.bt.initialStepPhase),
                              RMul(RInt(PhaseIncrement), HalfNumSamplesMinusOne))
                origin == RSub(yMean, RMul(slope, xMean))
                s == SaveBasicTuningResult(a, slope, origin, xMean, TRUE)
            IN [FinishedBasicTuning(s) EXCEPT !.ret = TRUE]
       ELSE LET p == (a.desiredStepPhase - PhaseIncrement) % 65536
                a1 == SetMotorPhase([a EXCEPT !.desiredStepPhase = p], p)
            IN [a1 EXCEPT !.bt.stepCounter = @ + 1]

BasicTuning(firstIteration, cur) ==
    LET m == IF firstIteration
             THEN [cur EXCEPT !.bt.state = "forwardInitial",
                              !.bt.stepCounter = 0,
                              !.forwardPolarity = TRUE]
             ELSE cur
    IN CASE m.bt.state = "forwardInitial" -> BT_forwardInitial(m)
         [] m.bt.state = "forwards" -> BT_forwards(m)
         [] m.bt.state = "reverseInitial" -> BT_reverseInitial(m)
         [] m.bt.state = "reverse" -> BT_reverse(m)

(***************************************************************************)
(* EncoderCalibration                                                      *)
(***************************************************************************)
GetMaxValue == MaxValue
GetLUTResolution == LUTResolution

ClearLUT(m) == [m EXCEPT !.lut = <<>>, !.lutOps = Append(@, "ClearLUT")]
StoreLUTValueForPosition(m, reading, counter) ==
    [m EXCEPT !.lut = Append(@, <<reading, counter>>),
              !.lutOps = Append(@, "StoreLUTValueForPosition")]
StoreLUT(m) == [m EXCEPT !.lutStores = @ + 1, !.lutOps = Append(@, "StoreLUT")]

\* mutant: the table is persisted after every bucket as well
EncoderCalibration_StoreEachBucket(firstIteration, cur) ==
    IF encoder = "relative" THEN [cur EXCEPT !.ret = TRUE]
    ELSE
      LET m0 == IF firstIteration
                THEN [ClearLUT(cur) EXCEPT !.ec.targetPosition = 0,
                                           !.ec.positionCounter = 0]
                ELSE cur
          m1 == IF currentEncoderReading < m0.ec.targetPosition
                THEN [m0 EXCEPT !.ec.positionCounter = @ + 1]
                ELSE IF currentEncoderReading > m0.ec.targetPosition
                THEN [m0 EXCEPT !.ec.positionCounter = @ - 1]
                ELSE [StoreLUT(StoreLUTValueForPosition(m0, currentEncoderReading,
                                                        m0.ec.positionCounter))
                        EXCEPT !.ec.targetPosition = @ + GetLUTResolution]
      IN IF m1.ec.targetPosition < 0 \/ m1.ec.targetPosition >= GetMaxValue
         THEN [StoreLUT(m1) EXCEPT !.ret = TRUE]
         ELSE LET p == (IF m1.ec.positionCounter > 0 THEN 0 ELSE 4096)
                          + CRem(m1.ec.positionCounter, 4096)
              IN SetMotorPhase([m1 EXCEPT !.desiredStepPhase = p], p)

\* mutant: a relative encoder is calibrated like an absolute one
EncoderCalibration_NoRelativeCheck(firstIteration, cur) ==
      LET m0 == IF firstIteration
                THEN [ClearLUT(cur) EXCEPT !.ec.targetPosition = 0,
                                           !.ec.positionCounter = 0]
                ELSE cur
          m1 == IF currentEncoderReading < m0.ec.targetPosition
                THEN [m0 EXCEPT !.ec.positionCounter = @ + 1]
                ELSE IF currentEncoderReading > m0.ec.targetPosition
                THEN [m0 EXCEPT !.ec.positionCounter = @ - 1]
                ELSE [StoreLUTValueForPosition(m0, currentEncoderReading,
                                               m0.ec.positionCounter)
                        EXCEPT !.ec.targetPosition = @ + GetLUTResolution]
      IN IF m1.ec.targetPosition < 0 \/ m1.ec.targetPosition >= GetMaxValue
         THEN [StoreLUT(m1) EXCEPT !.ret = TRUE]
         ELSE LET p == (IF m1.ec.positionCounter > 0 THEN 0 ELSE 4096)
                          + CRem(m1.ec.positionCounter, 4096)
              IN SetMotorPhase([m1 EXCEPT !.desiredStepPhase = p], p)

EncoderCalibration(firstIteration, cur) ==
    IF encoder = "relative" THEN [cur EXCEPT !.ret = TRUE]
    ELSE
      LET m0 == IF firstIteration
                THEN [ClearLUT(cur) EXCEPT !.ec.targetPosition = 0,
                                           !.ec.positionCounter = 0]
                ELSE cur
          m1 == IF currentEncoderReading < m0.ec.targetPosition
                THEN [m0 EXCEPT !.ec.positionCounter = @ + 1]
                ELSE IF currentEncoderReading > m0.ec.targetPosition
                THEN [m0 EXCEPT !.ec.positionCounter = @ - 1]
                ELSE [StoreLUTValueForPosition(m0, currentEncoderReading,
                                               m0.ec.positionCounter)
                        EXCEPT !.ec.targetPosition = @ + GetLUTResolution]
      IN IF m1.ec.targetPosition < 0 \/ m1.ec.targetPosition >= GetMaxValue
         THEN [StoreLUT(m1) EXCEPT !.ret = TRUE]
         ELSE LET p == (IF m1.ec.positionCounter > 0 THEN 0 ELSE 4096)
                          + CRem(m1.ec.positionCounter, 4096)
              IN SetMotorPhase([m1 EXCEPT !.desiredStepPhase = p], p)

(***************************************************************************)
(* Step                                                                    *)
(***************************************************************************)
AdjustTargetMotorSteps(m, increment) == [m EXCEPT !.targetMotorSteps = @ + increment]

\* mutant: the step manoeuvre adjusts the target and does not report completion
Step_Unfinished(firstIteration, cur) == AdjustTargetMotorSteps(cur, 4)

Step(firstIteration, cur) == [AdjustTargetMotorSteps(cur, 4) EXCEPT !.ret = TRUE]

(***************************************************************************)
(* ClosedLoop::PerformTune                                                 *)
(***************************************************************************)
Manoeuvres == {"BasicTuning", "EncoderCalibration", "Step"}

Prev == [tuning |-> tuning, tuningError |-> tuningError, fresh |-> fresh,
         lutStores |-> lutStores, bt |-> bt, ec |-> ec,
         targetMotorSteps |-> targetMotorSteps, nSaves |-> Len(saves),
         finishedCalls |-> finishedCalls]

\* mutant: the driver mode is not checked
PreconditionsHold_NoModeCheck == encoder # "none"

\* the check at the head of PerformTune
PreconditionsHold == driverDirect /\ encoder # "none"

\* mutant: encoder calibration has priority over basic tuning
SelectMove_CalibrationFirst(t) ==
    IF BitAnd(t, ENCODER_CALIBRATION_MANOEUVRE) # 0 THEN "EncoderCalibration"
    ELSE IF BitAnd(t, BASIC_TUNING_MANOEUVRE) # 0 THEN "BasicTuning"
    ELSE IF BitAnd(t, STEP_MANOEUVRE) # 0 THEN "Step"
    ELSE "none"

\* mutant: basic tuning is selected on any pending request, its bit set or not
SelectMove_WholeMask(t) ==
    IF t # 0 THEN "BasicTuning"
    ELSE IF BitAnd(t, ENCODER_CALIBRATION_MANOEUVRE) # 0 THEN "EncoderCalibration"
    ELSE IF BitAnd(t, STEP_MANOEUVRE) # 0 THEN "Step"
    ELSE "none"

\* the one, highest priority, tuning move of the request t
SelectMove(t) ==
    IF BitAnd(t, BASIC_TUNING_MANOEUVRE) # 0 THEN "BasicTuning"
    ELSE IF BitAnd(t, ENCODER_CALIBRATION_MANOEUVRE) # 0 THEN "EncoderCalibration"
    ELSE IF BitAnd(t, STEP_MANOEUVRE) # 0 THEN "Step"
    ELSE "none"

\* mutant: when basic tuning has finished, a pending encoder calibration is begun
\* in the same call
RunMove_FallThrough(move, t) ==
    CASE move = "BasicTuning" ->
            LET m == BasicTuning(newTuningMove,
                        IF encoder = "absolute" /\ BitAnd(t, ENCODER_CALIBRATION_MANOEUVRE) # 0
                        THEN ClearLUT(Cur) ELSE Cur)
            IN IF m.ret /\ BitAnd(t, ENCODER_CALIBRATION_MANOEUVRE) # 0
               THEN [EncoderCalibration(TRUE, m) EXCEPT !.ret = TRUE]
               ELSE m
      [] move = "EncoderCalibration" -> EncoderCalibration(newTuningMove, Cur)
      [] move = "Step" -> Step(newTuningMove, Cur)
      [] OTHER -> [Cur EXCEPT !.ret = TRUE]

\* one iteration of move on a request t
RunMove(move, t) ==
    CASE move = "BasicTuning" ->
            BasicTuning(newTuningMove,
                        IF encoder = "absolute" /\ BitAnd(t, ENCODER_CALIBRATION_MANOEUVRE) # 0
                        THEN ClearLUT(Cur) ELSE Cur)
      [] move = "EncoderCalibration" -> EncoderCalibration(newTuningMove, Cur)
      [] move = "Step" -> Step(newTuningMove, Cur)
      [] OTHER -> [Cur EXCEPT !.ret = TRUE]

\* mutant: basic tuning's completion clears the whole request
TuningAfter_ClearAll(move, fin, t) ==
    IF move = "none" THEN 0
    ELSE IF ~fin THEN t
    ELSE 0

\* mutant: basic tuning's bit is cleared as soon as it is stepped
TuningAfter_Early(move, fin, t) ==
    IF move = "none" THEN 0
    ELSE IF move = "BasicTuning" THEN BitClear(t, BASIC_TUNING_MANOEUVRE)
    ELSE IF ~fin THEN t
    ELSE 0

\* the request after move returned fin
TuningAfter(move, fin, t) ==
    IF move = "none" THEN 0
    ELSE IF ~fin THEN t
    ELSE IF move = "BasicTuning" THEN BitClear(t, BASIC_TUNING_MANOEUVRE)
    ELSE 0

\* mutant: the basic-tuning error bit is cleared before basic tuning has finished
ErrorAfter_Early(move, fin, e) ==
    IF move = "BasicTuning" THEN BitClear(e, TUNE_ERR_NOT_DONE_BASIC) ELSE e

\* the error bitmask after move returned fin
ErrorAfter(move, fin, e) ==
    IF move = "BasicTuning" /\ fin THEN BitClear(e, TUNE_ERR_NOT_DONE_BASIC) ELSE e

\* the error bitmask after the precondition check failed
ErrorAfterFailure(e) == BitOr(e, TUNE_ERR_SYSTEM_ERROR)

Commit(m) ==
    /\ bt' = m.bt
    /\ ec' = m.ec
    /\ desiredStepPhase' = m.desiredStepPhase
    /\ motorPos' = m.motorPos
    /\ forwardPolarity' = m.forwardPolarity
    /\ targetMotorSteps' = m.targetMotorSteps
    /\ lut' = m.lut
    /\ lutStores' = m.lutStores
    /\ saves' = m.saves
    /\ finishedCalls' = m.finishedCalls
    /\ phaseCmds' = m.phaseCmds
    /\ lutOps' = m.lutOps

\* one iteration of the control loop's call of PerformTune
Tick ==
    /\ tuning # 0
    /\ op' = "PerformTune"
    /\ prev' = Prev
    /\ age' = IF age < Window THEN age + 1 ELSE age
    /\ UNCHANGED <<driverDirect, encoder, encK, encB, request, nCommands, pdec, spi>>
    /\ IF ~PreconditionsHold
       THEN /\ tuningError' = ErrorAfterFailure(tuningError)
            /\ disturbed' = TRUE
            /\ tuning' = 0
            /\ Commit(Cur)
            /\ called' = "none"
            /\ calledFirst' = FALSE
            /\ finished' = FALSE
            /\ UNCHANGED <<newTuningMove, fresh, ecTicks, btTicks, btStartPhase>>
       ELSE \E move \in {SelectMove(tuning)} : \E m \in {RunMove(move, tuning)} :
               /\ Commit(m)
               /\ newTuningMove' = m.ret
               /\ tuning' = TuningAfter(move, m.ret, tuning)
               /\ tuningError' = ErrorAfter(move, m.ret, tuningError)
               /\ called' = move
               /\ calledFirst' = (move # "none" /\ newTuningMove)
               /\ finished' = (move # "none" /\ m.ret)
               /\ fresh' = fresh \ {move}
               /\ ecTicks' = IF move = "EncoderCalibration" THEN ecTicks + 1 ELSE ecTicks
               /\ btTicks' = IF move = "BasicTuning" THEN btTicks + 1 ELSE btTicks
               /\ btStartPhase' = IF move = "BasicTuning" /\ newTuningMove
                                  THEN desiredStepPhase ELSE btStartPhase
               /\ UNCHANGED disturbed

\* called from every iteration of the control loop if tuning is enabled
PerformTune == Tick /\ UNCHANGED <<disturbance, twin>>

\* the sweep samples whose reading may be off the line, and by how much
NoisySamples == {0, 1, NumSamples}
Disturbances == {0, 3}

\* a tick of BasicTuning in two runs that see the same readings but for the
\* constant twin.offset
PairTick ==
    /\ PreconditionsHold
    /\ SelectMove(tuning) = "BasicTuning"
    /\ Tick
    /\ disturbance' \in IF bt'.state \in {"forwards", "reverse"}
                            /\ bt'.stepCounter \in NoisySamples
                         THEN Disturbances ELSE {0}
    /\ \E t \in {BasicTuning(newTuningMove, twin)} :
          twin' = [t EXCEPT !.disturbance = disturbance' + twin.offset,
                            !.phaseCmds = <<>>, !.ret = FALSE]

(***************************************************************************)
(* The commands of the control surface and the driver                      *)
(***************************************************************************)
StartMasks ==
    {BASIC_TUNING_MANOEUVRE, ENCODER_CALIBRATION_MANOEUVRE, STEP_MANOEUVRE,
     BASIC_TUNING_MANOEUVRE + ENCODER_CALIBRATION_MANOEUVRE,
     ENCODER_CALIBRATION_MANOEUVRE + STEP_MANOEUVRE,
     MINIMAL_TUNE,
     CONTINUOUS_PHASE_INCREASE_MANOEUVRE, ZIEGLER_NICHOLS_MANOEUVRE}

AbortMasks == {255, BASIC_TUNING_MANOEUVRE, ENCODER_CALIBRATION_MANOEUVRE}

NoCall ==
    /\ prev' = Prev
    /\ called' = "none"
    /\ calledFirst' = FALSE
    /\ finished' = FALSE
    /\ phaseCmds' = <<>>
    /\ lutOps' = <<>>

\* the tuning-start command: requests the manoeuvres of mask; the error bit that
\* mirrors a requested manoeuvre is set until the manoeuvre has succeeded
StartTuning(mask) ==
    /\ tuning = 0
    /\ nCommands < MaxCommands
    /\ nCommands' = nCommands + 1
    /\ tuning' = mask
    /\ tuningError' = BitOr(tuningError, BitAnd(mask, TUNE_ERR_NOT_PERFORMED_MINIMAL_TUNE))
    /\ saves' = <<>>
    /\ finishedCalls' = 0
    /\ fresh' = Manoeuvres
    /\ request' = mask
    /\ disturbed' = FALSE
    /\ op' = "StartTuning"
    /\ age' = 0
    /\ NoCall
    /\ twin' = [twin EXCEPT !.saves = <<>>, !.finishedCalls = 0]
    /\ ecTicks' = 0
    /\ btTicks' = 0
    /\ UNCHANGED <<newTuningMove, driverDirect, encoder, bt, ec, desiredStepPhase,
                   forwardPolarity, targetMotorSteps, lut, lutStores, motorPos, encK, encB,
                   btStartPhase, disturbance, pdec, spi>>

\* the abort command: clears request bits between two ticks
Abort(mask) ==
    /\ BitAnd(tuning, mask) # 0
    /\ nCommands < MaxCommands
    /\ age < Window
    /\ nCommands' = nCommands + 1
    /\ tuning' = BitClear(tuning, mask)
    /\ disturbed' = TRUE
    /\ op' = "Abort"
    /\ NoCall
    /\ UNCHANGED <<tuningError, newTuningMove, driverDirect, encoder, bt, ec,
                   desiredStepPhase, forwardPolarity, targetMotorSteps, lut, lutStores,
                   saves, finishedCalls, motorPos, encK, encB, fresh, request, age,
                   ecTicks, btTicks, btStartPhase, disturbance, twin, pdec, spi>>

\* the driver enters or leaves direct-drive mode
SetDriverMode ==
    /\ nCommands < MaxCommands
    /\ age < Window
    /\ nCommands' = nCommands + 1
    /\ driverDirect' = ~driverDirect
    /\ op' = "SetDriverMode"
    /\ NoCall
    /\ UNCHANGED <<tuning, tuningError, newTuningMove, encoder, bt, ec, desiredStepPhase,
                   forwardPolarity, targetMotorSteps, lut, lutStores, saves, finishedCalls,
                   motorPos, encK, encB, fresh, request, disturbed, age,
                   ecTicks, btTicks, btStartPhase, disturbance, twin, pdec, spi>>

(***************************************************************************)
(* QuadratureEncoderPdec                                                   *)
(***************************************************************************)
\* the windows of the 16-bit hardware counter
CounterRange == 65536
HalfCounterRange == 32768

\* the constructor: lastCount(0), counterHigh(0); the counter is reset to zero.
\* position is the true position of the shaft in counts; counterHigh stands for
\* the uint32_t as the int32_t of the same bits.
NewQuadratureEncoderPdec ==
    [position |-> 0, lastCount |-> 0, counterHigh |-> 0, result |-> 0, reads |-> 0]

\* mutant: every decrease of the count is taken for a wrap upwards
GetRelativePosition_AnyDecrease(p, count) ==
    LET high == IF count < p.lastCount THEN p.counterHigh + 1 ELSE p.counterHigh
    IN [p EXCEPT !.lastCount = count,
                 !.counterHigh = high,
                 !.result = high * CounterRange + count]

\* GetRelativePosition when the hardware counter reads count: the signed 16-bit
\* difference from lastCount tells the direction, a count that went the other
\* way has wrapped
GetRelativePosition(p, count) ==
    LET d == (count - p.lastCount) % CounterRange
        delta == IF d >= HalfCounterRange THEN d - CounterRange ELSE d
        high == IF delta > 0 /\ count < p.lastCount THEN p.counterHigh + 1
                ELSE IF delta < 0 /\ count > p.lastCount THEN p.counterHigh - 1
                ELSE p.counterHigh
    IN [p EXCEPT !.lastCount = count,
                 !.counterHigh = high,
                 !.result = high * CounterRange + count]

\* how far the shaft moves between two reads: less than half the counter range
CounterMoves == {-32767, -20000, -1, 0, 1, 20000, 32767}

\* the shaft moves and the position is read
ReadPosition(move) ==
    /\ pdec.reads < MaxReads
    /\ \E p \in {[pdec EXCEPT !.position = @ + move, !.reads = @ + 1]} :
          pdec' = GetRelativePosition(p, p.position % CounterRange)
    /\ UNCHANGED <<tuneVars, spi>>

(***************************************************************************)
(* SharedSpiDevice                                                         *)
(***************************************************************************)
SpiTimeout == 10000
DefaultSharedSpiClockFrequency == 2000000

\* a flag that is never asserted
Never == -1
\* failed polls before a flag is asserted
Latencies == {0, SpiTimeout - 1, SpiTimeout, Never}

SpiDevices == {1, 2}

\* SharedSpiDevice(clockFreq, m, polarity), for the devices that share the bus
DevicesA ==
    <<[clockFrequency |-> 1000000, mode |-> 0, csActivePolarity |-> TRUE],
      [clockFrequency |-> 4000000, mode |-> 3, csActivePolarity |-> FALSE]>>
DevicesB ==
    <<[clockFrequency |-> 1000000, mode |-> 1, csActivePolarity |-> FALSE],
      [clockFrequency |-> 4000000, mode |-> 2, csActivePolarity |-> TRUE]>>
DeviceSets == {DevicesA, DevicesB}

\* nothing called yet
NoSpiCall ==
    [op |-> "none", dev |-> 0, tx |-> FALSE, rx |-> FALSE, len |-> 0, ret |-> FALSE,
     waits |-> 0, maxPolls |-> 0, written |-> 0, stored |-> 0, expired |-> FALSE,
     emptyExpired |-> FALSE, dead |-> FALSE, failedAt |-> 0, failedWait |-> "none"]

\* the SERCOM after power up: CTRLA (the bits set), CTRLB.RXEN, BAUD (as the
\* clock frequency it gives), commsInitDone, the chip select pins
SpiAtReset(devs) ==
    [ctrlA |-> {}, rxen |-> FALSE, baud |-> 0, commsInitDone |-> FALSE, resets |-> 0,
     cs |-> [d \in SpiDevices |-> "input"], device |-> devs, last |-> NoSpiCall]

\* mutant: the timeout counter is tested before it is decremented
WaitReady_PostDecrement(lat) ==
    IF lat # Never /\ lat <= SpiTimeout
    THEN [timedOut |-> FALSE, polls |-> lat + 1]
    ELSE [timedOut |-> TRUE, polls |-> SpiTimeout + 1]

\* waitForTxReady and waitForRxReady when the flag is asserted after lat failed
\* polls: whether it timed out, and the polls made
WaitReady(lat) ==
    IF lat # Never /\ lat < SpiTimeout
    THEN [timedOut |-> FALSE, polls |-> lat + 1]
    ELSE [timedOut |-> TRUE, polls |-> SpiTimeout]

\* waitForTxEmpty
WaitEmpty(lat) ==
    IF lat # Never /\ lat <= SpiTimeout
    THEN [timedOut |-> FALSE, polls |-> lat + 1]
    ELSE [timedOut |-> TRUE, polls |-> SpiTimeout + 1]

Max(a, b) == IF a >= b THEN a ELSE b

\* one wait made by a call
Waited(acc, w) ==
    [acc EXCEPT !.waits = @ + 1, !.maxPolls = Max(@, w.polls),
                !.expired = @ \/ w.timedOut]

RECURSIVE TransceiveLoop(_, _, _, _, _, _)
\* TransceivePacket from byte i on, env[w] being the latency of its next wait
TransceiveLoop(i, w, rx, len, env, acc) ==
    IF i < len
    THEN LET t == WaitReady(env[w])
             a1 == Waited(acc, t)
         IN IF t.timedOut
            THEN [a1 EXCEPT !.ret = FALSE, !.failedAt = i, !.failedWait = "tx"]
            ELSE LET a2 == [a1 EXCEPT !.written = @ + 1]
                 IN IF rx
                    THEN LET r == WaitReady(env[w + 1])
                             a3 == Waited(a2, r)
                         IN IF r.timedOut
                            THEN [a3 EXCEPT !.ret = FALSE, !.failedAt = i,
                                            !.failedWait = "rx"]
                            ELSE TransceiveLoop(i + 1, w + 2, rx, len, env,
                                                [a3 EXCEPT !.stored = @ + 1])
                    ELSE TransceiveLoop(i + 1, w + 1, rx, len, env, a2)
    ELSE IF ~rx
         THEN LET e == WaitEmpty(env[w])
              IN [Waited(acc, e) EXCEPT !.ret = TRUE, !.emptyExpired = e.timedOut]
         ELSE [acc EXCEPT !.ret = TRUE]

\* mutant: on a receiver timeout the data register is stored all the same
TransceivePacket_StoreOnTimeout(tx, rx, len, env) ==
    LET r == TransceiveLoop(0, 1, rx, len, env,
                   [NoSpiCall EXCEPT !.op = "TransceivePacket", !.tx = tx, !.rx = rx,
                                     !.len = len,
                                     !.dead = \A w \in DOMAIN env : env[w] = Never])
    IN IF r.failedWait = "rx" THEN [r EXCEPT !.stored = @ + 1] ELSE r

\* TransceivePacket(tx_data, rx_data, len): tx and rx tell whether the pointers
\* are not null; failedAt and failedWait tell the byte position and the wait at
\* which a call gave up
TransceivePacket(tx, rx, len, env) ==
    TransceiveLoop(0, 1, rx, len, env,
                   [NoSpiCall EXCEPT !.op = "TransceivePacket", !.tx = tx, !.rx = rx,
                                     !.len = len,
                                     !.dead = \A w \in DOMAIN env : env[w] = Never])

\* the behaviours of the bus during a call, and what the call comes to in each
SpiEnvs == [1..(2 * MaxLen) -> Latencies]
TransceiveOutcomes ==
    UNION {{TransceivePacket(a[1], a[2], a[3], env) : env \in SpiEnvs} :
            a \in BOOLEAN \X BOOLEAN \X (0..MaxLen)}

\* InitSpi: reset the SERCOM, set it up, enable it
InitSpi(b) ==
    [b EXCEPT !.ctrlA = {"MODE3", "DIPO3", "CPOL", "CPHA", "ENABLE"},
              !.rxen = FALSE,
              !.baud = DefaultSharedSpiClockFrequency,
              !.resets = @ + 1]

DisableSpi(b) == [b EXCEPT !.rxen = FALSE]
EnableSpi(b) == [b EXCEPT !.rxen = TRUE]

InitMaster(d) ==
    /\ \E b \in {[spi EXCEPT !.cs[d] = IF spi.device[d].csActivePolarity
                                        THEN "low" ELSE "high"]} :
          spi' = [(IF ~b.commsInitDone
                   THEN [InitSpi(b) EXCEPT !.commsInitDone = TRUE] ELSE b)
                    EXCEPT !.last = [NoSpiCall EXCEPT !.op = "InitMaster", !.dev = d]]
    /\ UNCHANGED <<tuneVars, pdec>>

\* the value SetupMaster writes to CTRLA for a device in SPI mode mode
SetupCtrlA(mode) ==
    {"MODE3", "DIPO3", "CPOL", "CPHA"}
        \cup (IF (mode \div 2) % 2 # 0 THEN {"CPOL"} ELSE {})
        \cup (IF mode % 2 = 0 THEN {"CPHA"} ELSE {})

SetupMaster(d) ==
    /\ spi' = [EnableSpi([DisableSpi(spi) EXCEPT
                              !.baud = spi.device[d].clockFrequency,
                              !.ctrlA = SetupCtrlA(spi.device[d].mode)])
                 EXCEPT !.last = [NoSpiCall EXCEPT !.op = "SetupMaster", !.dev = d]]
    /\ UNCHANGED <<tuneVars, pdec>>

Select(d) ==
    /\ spi' = [spi EXCEPT !.cs[d] = IF spi.device[d].csActivePolarity
                                    THEN "high" ELSE "low",
                          !.last = [NoSpiCall EXCEPT !.op = "Select", !.dev = d]]
    /\ UNCHANGED <<tuneVars, pdec>>

Deselect(d) ==
    /\ spi' = [spi EXCEPT !.cs[d] = IF spi.device[d].csActivePolarity
                                    THEN "low" ELSE "high",
                          !.last = [NoSpiCall EXCEPT !.op = "Deselect", !.dev = d]]
    /\ UNCHANGED <<tuneVars, pdec>>

Transceive(d) ==
    /\ \E r \in TransceiveOutcomes :
          spi' = [spi EXCEPT !.last = [r EXCEPT !.dev = d]]
    /\ UNCHANGED <<tuneVars, pdec>>

(***************************************************************************)
(* Specifications                                                          *)
(***************************************************************************)
\* the bus not in use
NoSpi == spi = SpiAtReset(DevicesA)

InitStatics ==
    /\ tuning = 0
    /\ tuningError = 0
    /\ newTuningMove = TRUE
    /\ bt = [state |-> "forwardInitial", initialStepPhase |-> 0,
             initialEncoderReading |-> 0, stepCounter |-> 0,
             regressionAccumulator |-> RInt(0), readingAccumulator |-> 0,
             samples |-> 0]
    /\ ec = [targetPosition |-> 0, positionCounter |-> 0]
    /\ forwardPolarity = FALSE
    /\ targetMotorSteps = 0
    /\ lut = <<>>
    /\ lutStores = 0
    /\ saves = <<>>
    /\ finishedCalls = 0
    /\ phaseCmds = <<>>
    /\ lutOps = <<>>
    /\ called = "none"
    /\ calledFirst = FALSE
    /\ finished = FALSE
    /\ fresh = Manoeuvres
    /\ op = "Init"
    /\ prev = [tuning |-> 0, tuningError |-> 0, fresh |-> Manoeuvres, lutStores |-> 0,
               bt |-> bt, ec |-> ec, targetMotorSteps |-> 0, nSaves |-> 0,
               finishedCalls |-> 0]
    /\ ecTicks = 0
    /\ btTicks = 0
    /\ btStartPhase = 0
    /\ pdec = NewQuadratureEncoderPdec
    /\ request = 0
    /\ disturbed = FALSE
    /\ age = 0
    /\ nCommands = 0
    /\ disturbance = 0

\* the second run before its first step: the first run's start, readings shifted by c
TwinOf(c) ==
    [bt |-> bt, desiredStepPhase |-> desiredStepPhase, motorPos |-> motorPos,
     forwardPolarity |-> forwardPolarity, saves |-> <<>>, finishedCalls |-> 0,
     phaseCmds |-> <<>>, ret |-> FALSE, disturbance |-> c, offset |-> c]

\* the dispatcher under every command, with an encoder that follows the phase
Init ==
    /\ InitStatics
    /\ driverDirect \in BOOLEAN
    /\ encoder \in {"none", "relative", "absolute"}
    /\ desiredStepPhase = 0
    /\ motorPos = 0
    /\ encK = 1
    /\ encB = 0
    /\ twin = TwinOf(0)
    /\ NoSpi

Next ==
    \/ PerformTune
    \/ \E mask \in StartMasks : StartTuning(mask)
    \/ \E mask \in AbortMasks : Abort(mask)
    \/ SetDriverMode

Spec == Init /\ [][Next]_vars

\* basic tuning alone, on linear encoders of several gains and offsets
SweepGains == {1, 2, -1}
SweepOffsets == {0, 7}
SweepPhases == {0, 4000}

SweepInit ==
    /\ InitStatics
    /\ driverDirect = TRUE
    /\ encoder = "relative"
    /\ desiredStepPhase \in SweepPhases
    /\ motorPos = desiredStepPhase
    /\ encK \in SweepGains
    /\ encB \in SweepOffsets
    /\ twin = TwinOf(0)
    /\ NoSpi

SweepNext ==
    \/ PerformTune
    \/ StartTuning(BASIC_TUNING_MANOEUVRE)

SpecSweep == SweepInit /\ [][SweepNext]_vars

\* no tuning requested, a relative encoder
Idle ==
    /\ InitStatics
    /\ driverDirect = TRUE
    /\ encoder = "relative"
    /\ desiredStepPhase = 0
    /\ motorPos = 0
    /\ encK = 1
    /\ encB = 0
    /\ twin = TwinOf(0)

\* the shared SPI bus under every sequence of calls, for devices of every mode
SpiInit ==
    /\ Idle
    /\ \E devs \in DeviceSets : spi = SpiAtReset(devs)

SpiNext ==
    \E d \in SpiDevices :
        \/ InitMaster(d)
        \/ SetupMaster(d)
        \/ Select(d)
        \/ Deselect(d)
        \/ Transceive(d)

SpecSpi == SpiInit /\ [][SpiNext]_vars

\* the quadrature decoder read at any cadence while the shaft turns
PdecNext == \E move \in CounterMoves : ReadPosition(move)

PdecInit == Idle /\ NoSpi

SpecPdec == PdecInit /\ [][PdecNext]_vars

\* encoder calibration alone, on an absolute encoder that follows the phase, the
\* motor starting at several positions
CalibStarts == {0, 5, 11}

CalibInit ==
    /\ InitStatics
    /\ driverDirect = TRUE
    /\ encoder = "absolute"
    /\ motorPos \in CalibStarts
    /\ desiredStepPhase = motorPos
    /\ encK = 1
    /\ encB = 0
    /\ twin = TwinOf(0)
    /\ NoSpi

CalibNext ==
    \/ PerformTune
    \/ StartTuning(ENCODER_CALIBRATION_MANOEUVRE)
    \/ Abort(ENCODER_CALIBRATION_MANOEUVRE)

SpecCalib == CalibInit /\ [][CalibNext]_vars

\* basic tuning twice over, on readings off the line and the same readings shifted
ReadingOffsets == {5, -3}

OffsetInit ==
    /\ InitStatics
    /\ driverDirect = TRUE
    /\ encoder = "relative"
    /\ desiredStepPhase = 0
    /\ motorPos = 0
    /\ encK = 1
    /\ encB = 0
    /\ \E c \in ReadingOffsets : twin = TwinOf(c)
    /\ NoSpi

OffsetNext ==
    \/ PairTick
    \/ StartTuning(BASIC_TUNING_MANOEUVRE)

SpecOffset == OffsetInit /\ [][OffsetNext]_vars

(***************************************************************************)
(* Claims                                                                  *)
(***************************************************************************)
\* C1: a PerformTune tick made while the driver is not in direct-drive mode or
\* no encoder is present ends with the system-error bit set and tuning = 0, and
\* on that tick no manoeuvre is stepped and no motor phase is commanded.
C1_PreconditionFailure ==
    (op = "PerformTune" /\ (~driverDirect \/ encoder = "none")) =>
        /\ BitAnd(tuningError, TUNE_ERR_SYSTEM_ERROR) # 0
        /\ tuning = 0
        /\ called = "none"
        /\ phaseCmds = <<>>

\* a failed tick that cancels a minimal tune whose basic tuning was under way
C1_Witness ==
    /\ op = "PerformTune"
    /\ ~driverDirect
    /\ prev.tuning = MINIMAL_TUNE
    /\ "BasicTuning" \notin prev.fresh
    /\ BitAnd(prev.tuningError, TUNE_ERR_SYSTEM_ERROR) = 0

\* C2: with the basic-tuning and encoder-calibration bits both set, an absolute
\* encoder and the preconditions holding, a tick steps BasicTuning; it leaves the
\* request as it is until BasicTuning reports finished, and then clears only the
\* basic-tuning bit.  EncoderCalibration is stepped only on a tick that finds
\* the basic-tuning bit clear, hence on a later tick.
C2_BasicBeforeCalibration ==
    /\ (/\ op = "PerformTune"
        /\ driverDirect
        /\ encoder = "absolute"
        /\ BitAnd(prev.tuning, BASIC_TUNING_MANOEUVRE) # 0
        /\ BitAnd(prev.tuning, ENCODER_CALIBRATION_MANOEUVRE) # 0) =>
            /\ called = "BasicTuning"
            /\ tuning = IF finished THEN prev.tuning - BASIC_TUNING_MANOEUVRE
                        ELSE prev.tuning
    /\ (op = "PerformTune" /\ called = "EncoderCalibration") =>
            BitAnd(prev.tuning, BASIC_TUNING_MANOEUVRE) = 0

\* the first calibration step of a request of both, after its basic tuning finished
C2_Witness ==
    /\ op = "PerformTune"
    /\ called = "EncoderCalibration"
    /\ "EncoderCalibration" \in prev.fresh
    /\ encoder = "absolute"
    /\ request = BASIC_TUNING_MANOEUVRE + ENCODER_CALIBRATION_MANOEUVRE
    /\ ~disturbed
    /\ finishedCalls = 1

\* C3: the first step of every manoeuvre run is made with firstIteration = TRUE.
C3_FirstStepIsFirstIteration ==
    (op = "PerformTune" /\ called \in prev.fresh) => calledFirst

\* C4: a tick steps a manoeuvre only if the manoeuvre's request bit is set when
\* the tick begins: once the bit has been cleared between two ticks, the
\* manoeuvre is not stepped until the bit is set again.
C4_AbortedMoveNotStepped ==
    (op = "PerformTune" /\ called \in Manoeuvres) =>
        BitAnd(prev.tuning,
               CASE called = "BasicTuning" -> BASIC_TUNING_MANOEUVRE
                 [] called = "EncoderCalibration" -> ENCODER_CALIBRATION_MANOEUVRE
                 [] called = "Step" -> STEP_MANOEUVRE) # 0

\* a tick after basic tuning was aborted in mid run, other requests pending
C4_Witness ==
    /\ op = "PerformTune"
    /\ driverDirect
    /\ encoder # "none"
    /\ BitAnd(request, BASIC_TUNING_MANOEUVRE) # 0
    /\ "BasicTuning" \notin prev.fresh
    /\ finishedCalls = 0
    /\ BitAnd(prev.tuning, BASIC_TUNING_MANOEUVRE) = 0
    /\ prev.tuning # 0
    /\ called # "BasicTuning"

\* C5: on the tick where BasicTuning reports finished exactly the basic-tuning
\* request bit leaves tuning and the basic-tuning error bit leaves tuningError;
\* on the tick where EncoderCalibration or Step reports finished tuning becomes 0.
C5_FinishClearsBits ==
    (op = "PerformTune" /\ finished) =>
        /\ called = "BasicTuning" =>
            /\ BitAnd(prev.tuning, BASIC_TUNING_MANOEUVRE) # 0
            /\ tuning = prev.tuning - BASIC_TUNING_MANOEUVRE
            /\ tuningError = prev.tuningError
                                - BitAnd(prev.tuningError, TUNE_ERR_NOT_DONE_BASIC)
        /\ called \in {"EncoderCalibration", "Step"} => tuning = 0

\* basic tuning finishes with the other bits of a minimal tune pending
C5_Witness ==
    /\ op = "PerformTune"
    /\ finished
    /\ called = "BasicTuning"
    /\ tuning = MINIMAL_TUNE - BASIC_TUNING_MANOEUVRE
    /\ BitAnd(prev.tuningError, TUNE_ERR_NOT_DONE_BASIC) # 0
    /\ BitAnd(tuningError, TUNE_ERR_NOT_DONE_BASIC) = 0

\* C6, as claimed: while the preconditions hold, the request bit of an
\* implemented manoeuvre is cleared only on a tick in which that same manoeuvre
\* reported finished.
C6_ClearedOnlyByOwnMove ==
    (op = "PerformTune" /\ driverDirect /\ encoder # "none") =>
        /\ (BitAnd(prev.tuning, BASIC_TUNING_MANOEUVRE) # 0
              /\ BitAnd(tuning, BASIC_TUNING_MANOEUVRE) = 0)
            => (called = "BasicTuning" /\ finished)
        /\ (BitAnd(prev.tuning, ENCODER_CALIBRATION_MANOEUVRE) # 0
              /\ BitAnd(tuning, ENCODER_CALIBRATION_MANOEUVRE) = 0)
            => (called = "EncoderCalibration" /\ finished)
        /\ (BitAnd(prev.tuning, STEP_MANOEUVRE) # 0
              /\ BitAnd(tuning, STEP_MANOEUVRE) = 0)
            => (called = "Step" /\ finished)

\* C6, amended: while the preconditions hold, the basic-tuning bit is cleared
\* only on a tick in which BasicTuning reported finished, and the
\* encoder-calibration and step bits are cleared only on a tick in which
\* BasicTuning was not stepped and EncoderCalibration or Step reported finished
\* (such a tick clears the whole request).
C6_ClearedOnlyOnFinish ==
    (op = "PerformTune" /\ driverDirect /\ encoder # "none") =>
        /\ (BitAnd(prev.tuning, BASIC_TUNING_MANOEUVRE) # 0
              /\ BitAnd(tuning, BASIC_TUNING_MANOEUVRE) = 0)
            => (called = "BasicTuning" /\ finished)
        /\ (BitAnd(prev.tuning, ENCODER_CALIBRATION_MANOEUVRE + STEP_MANOEUVRE)
              # BitAnd(tuning, ENCODER_CALIBRATION_MANOEUVRE + STEP_MANOEUVRE))
            => (called \in {"EncoderCalibration", "Step"} /\ finished /\ tuning = 0)

\* encoder calibration finishes and drops a pending step request
C6_Witness ==
    /\ op = "PerformTune"
    /\ called = "EncoderCalibration"
    /\ finished
    /\ BitAnd(prev.tuning, STEP_MANOEUVRE) # 0
    /\ tuning = 0
    /\ targetMotorSteps = 0

\* C7: a tick clears a bit of tuningError only if it is the basic-tuning error
\* bit and BasicTuning reported finished on that tick; the system-error bit is
\* never cleared by a tick.
C7_ErrorBitsClearedOnlyOnFinish ==
    op = "PerformTune" =>
        LET cleared == prev.tuningError - BitAnd(prev.tuningError, tuningError)
        IN \/ cleared = 0
           \/ (cleared = TUNE_ERR_NOT_DONE_BASIC /\ called = "BasicTuning" /\ finished)

\* an unfinished basic-tuning step with the system-error and basic error bits set
C7_Witness ==
    /\ op = "PerformTune"
    /\ called = "BasicTuning"
    /\ ~finished
    /\ BitAnd(tuningError, TUNE_ERR_SYSTEM_ERROR) # 0
    /\ BitAnd(tuningError, TUNE_ERR_NOT_DONE_BASIC) # 0

\* C8: a tick that handles a request of unimplemented manoeuvres only
\* (continuous phase increase, Ziegler-Nichols) leaves an error bit set.
C8_UnimplementedFails ==
    (/\ op = "PerformTune"
     /\ driverDirect
     /\ encoder # "none"
     /\ prev.tuning # 0
     /\ BitAnd(prev.tuning, 255 - CONTINUOUS_PHASE_INCREASE_MANOEUVRE
                                - ZIEGLER_NICHOLS_MANOEUVRE) = 0)
        => tuningError # 0

\* C9: when the ticks of an undisturbed minimal tune have brought tuning to 0,
\* the minimal-tune bits of tuningError are clear and FinishedBasicTuning has
\* been called.
C9_MinimalTuneEndToEnd ==
    (op = "PerformTune" /\ request = MINIMAL_TUNE /\ ~disturbed /\ tuning = 0) =>
        /\ BitAnd(tuningError, TUNE_ERR_NOT_PERFORMED_MINIMAL_TUNE) = 0
        /\ finishedCalls >= 1

\* C10: on a linear encoder, reading = encK * phase + encB, every slope and
\* origin passed to SaveBasicTuningResult equal encK and encB.
C10_SweepRecoversLine ==
    \A i \in 1..Len(saves) :
        /\ saves[i].slope = RInt(encK)
        /\ saves[i].origin = RInt(encB)

C12_EveryBucketOnce ==
    /\ \A i \in 1..Len(lut) :
          /\ lut[i][1] = (i - 1) * GetLUTResolution
          /\ lut[i][1] < GetMaxValue
    /\ (op = "PerformTune" /\ called = "EncoderCalibration" /\ finished
          /\ encoder = "absolute")
        => Len(lut) = (GetMaxValue + GetLUTResolution - 1) \div GetLUTResolution

\* C13: on an absolute encoder that follows the phase, a run of
\* EncoderCalibration has taken at most 2 * GetMaxValue() steps plus one per
\* bucket; a step reports finished iff it leaves the target position at or beyond
\* GetMaxValue(), and StoreLUT is called once on that step and on no other.
C13_CalibrationTerminates ==
    /\ ecTicks <= 2 * GetMaxValue
                    + (GetMaxValue + GetLUTResolution - 1) \div GetLUTResolution
    /\ (op = "PerformTune" /\ encoder = "absolute") =>
          lutStores = prev.lutStores
                        + (IF called = "EncoderCalibration" /\ finished THEN 1 ELSE 0)
    /\ (op = "PerformTune" /\ encoder = "absolute" /\ called = "EncoderCalibration") =>
          (finished <=> ec.targetPosition >= GetMaxValue)

\* a run that had to come down to reading 0 first finishes and stores the table
C13_Witness ==
    /\ op = "PerformTune"
    /\ called = "EncoderCalibration"
    /\ finished
    /\ ec.positionCounter < 0
    /\ ecTicks > GetMaxValue
    /\ lutStores = 1

\* C14: when the shaft moves by less than half the counter range between two
\* reads, the position GetRelativePosition returns is the true position, however
\* often and in whichever direction the 16-bit counter has wrapped.
C14_PositionReconstructed ==
    /\ pdec.result = pdec.position
    /\ pdec.result = pdec.counterHigh * CounterRange + pdec.lastCount
    /\ pdec.lastCount \in 0..(CounterRange - 1)

\* the counter has wrapped downwards more than once
C14_Witness ==
    /\ pdec.reads = MaxReads
    /\ pdec.counterHigh < -1
    /\ pdec.result < -CounterRange

\* C15, as claimed: a TransceivePacket call with a receive buffer, on a bus whose
\* flags are never asserted, returns failure, polls a flag at most SpiTimeout times
\* in a wait and stores no more than len bytes.
C15_DeadBusFails ==
    (spi.last.op = "TransceivePacket" /\ spi.last.rx /\ spi.last.dead) =>
        /\ ~spi.last.ret
        /\ spi.last.maxPolls <= SpiTimeout
        /\ spi.last.stored <= spi.last.len

\* C15, amended: the same of a call for at least one byte; and no call stores
\* more than len bytes.
C15_DeadBusFailsForBytes ==
    /\ (spi.last.op = "TransceivePacket" /\ spi.last.rx /\ spi.last.dead
          /\ spi.last.len >= 1) =>
            /\ ~spi.last.ret
            /\ spi.last.maxPolls <= SpiTimeout
    /\ spi.last.stored <= spi.last.len

\* a call for the longest packet fails on a dead bus at its first wait
C15_Witness ==
    /\ spi.last.op = "TransceivePacket"
    /\ spi.last.rx
    /\ spi.last.dead
    /\ spi.last.len = MaxLen
    /\ ~spi.last.ret
    /\ spi.last.maxPolls = SpiTimeout
    /\ spi.last.stored = 0

\* C16: a TransceivePacket call returns success only if none of its waits
\* expired.
C16_SuccessOnlyWithoutTimeout ==
    (spi.last.op = "TransceivePacket" /\ spi.last.ret) => ~spi.last.expired

\* C17: after SetupMaster on a device of mode m, CTRLA has the clock polarity bit
\* set iff bit 1 of m is set and the clock phase bit set iff bit 0 of m is clear.
C17_ModeConfigured ==
    spi.last.op = "SetupMaster" =>
        LET m == spi.device[spi.last.dev].mode
        IN /\ ("CPOL" \in spi.ctrlA) <=> ((m \div 2) % 2 = 1)
           /\ ("CPHA" \in spi.ctrlA) <=> (m % 2 = 0)

\* C18: once InitMaster has been called the ENABLE bit of CTRLA is set, and the
\* peripheral has been reset once.
C18_AlwaysEnabled ==
    spi.commsInitDone => ("ENABLE" \in spi.ctrlA /\ spi.resets = 1)

\* C19: a tick steps at most one manoeuvre, once: it commands at most one motor
\* phase, and it changes the state of no manoeuvre but the one it steps; so the
\* tick on which BasicTuning reports finished steps neither EncoderCalibration
\* nor Step, whichever bits are pending.
C19_OneMovePerTick ==
    op = "PerformTune" =>
        /\ Len(phaseCmds) <= 1
        /\ called # "BasicTuning" => (bt = prev.bt /\ Len(saves) = prev.nSaves)
        /\ called # "EncoderCalibration" => (ec = prev.ec /\ lutStores = prev.lutStores)
        /\ targetMotorSteps = prev.targetMotorSteps + (IF called = "Step" THEN 4 ELSE 0)
        /\ called = "BasicTuning" => Len(saves) <= prev.nSaves + 1
        /\ (called = "BasicTuning" /\ finished) => phaseCmds = <<>>

\* basic tuning finishes on an absolute encoder while calibration is pending and
\* the motor stands at a reading that calibration would store
C19_Witness ==
    /\ op = "PerformTune"
    /\ called = "BasicTuning"
    /\ finished
    /\ encoder = "absolute"
    /\ prev.tuning = MINIMAL_TUNE
    /\ currentEncoderReading = 0
    /\ ec = prev.ec

\* C20: a run of BasicTuning begun with firstIteration = TRUE goes through forward
\* settle, forward sweep, reverse settle and reverse sweep in this order and
\* never back; each settle takes NumDummySteps steps, none of which reads the
\* encoder; it returns finished once, from the reverse sweep, on step
\* 2 * (NumDummySteps + NumSamples + 1).
C20_StateOrder ==
    (op = "PerformTune" /\ called = "BasicTuning") =>
        LET Rank(st) == CASE st = "forwardInitial" -> 0 [] st = "forwards" -> 1
                          [] st = "reverseInitial" -> 2 [] st = "reverse" -> 3
            from == IF calledFirst THEN "forwardInitial" ELSE prev.bt.state
            sweepEnd == NumDummySteps + NumSamples + 1
        IN /\ Rank(bt.state) - Rank(from) \in {0, 1}
           /\ bt.state = "forwardInitial" <=> btTicks < NumDummySteps
           /\ bt.state = "forwards" <=> btTicks \in NumDummySteps..(sweepEnd - 1)
           /\ bt.state = "reverseInitial"
                <=> btTicks \in sweepEnd..(sweepEnd + NumDummySteps - 1)
           /\ bt.state = "reverse"
                <=> btTicks \in (sweepEnd + NumDummySteps)..(2 * sweepEnd)
           /\ finished <=> btTicks = 2 * sweepEnd
           /\ finished => from = "reverse"
           /\ from \in {"forwardInitial", "reverseInitial"} =>
                /\ bt.initialEncoderReading = prev.bt.initialEncoderReading
                /\ bt.readingAccumulator \in {prev.bt.readingAccumulator, 0}
                /\ bt.regressionAccumulator \in {prev.bt.regressionAccumulator, RInt(0)}

\* the second run of basic tuning returns finished
C20_Witness ==
    /\ op = "PerformTune"
    /\ called = "BasicTuning"
    /\ finished
    /\ nCommands = 2
    /\ btTicks = 2 * (NumDummySteps + NumSamples + 1)
    /\ Len(saves) = 2

\* C21: when a sweep of BasicTuning computes its slope and origin, exactly
\* NumSamples = 4096 / PhaseIncrement readings have been added to the
\* accumulators since they were zeroed.
C21_SamplesPerSweep ==
    (op = "PerformTune" /\ called = "BasicTuning" /\ Len(saves) = prev.nSaves + 1) =>
        bt.samples = NumSamples

\* C22: one run of BasicTuning calls SaveBasicTuningResult twice, first with
\* reverse = FALSE and then with reverse = TRUE, on the last step of each sweep
\* and on no other; it calls FinishedBasicTuning once, on the step that makes
\* the reverse save and returns finished, and on no other.
C22_SavesAndFinish ==
    /\ Len(saves) <= 2
    /\ \A i \in 1..Len(saves) : saves[i].reverse = (i = 2)
    /\ finishedCalls = (IF Len(saves) = 2 THEN 1 ELSE 0)
    /\ (op = "PerformTune" /\ called = "BasicTuning") =>
          LET sweepEnd == NumDummySteps + NumSamples + 1
          IN /\ Len(saves) - prev.nSaves = (IF btTicks \in {sweepEnd, 2 * sweepEnd} THEN 1 ELSE 0)
             /\ finishedCalls - prev.finishedCalls = (IF finished THEN 1 ELSE 0)
             /\ finished <=> (Len(saves) = prev.nSaves + 1 /\ saves[Len(saves)].reverse)

\* the step that makes the reverse save, finalizes and returns finished
C22_Witness ==
    /\ op = "PerformTune"
    /\ called = "BasicTuning"
    /\ finished
    /\ Len(saves) = 2
    /\ saves[1].reverse = FALSE
    /\ saves[2].reverse = TRUE
    /\ finishedCalls = 1
    /\ prev.finishedCalls = 0

\* C23: every phase that a step of BasicTuning passes to SetMotorPhase lies in
\* 0..4095, whatever phase in 0..4095 the run started from.
C23_BasicPhaseInRange ==
    (op = "PerformTune" /\ called = "BasicTuning") =>
        \A i \in 1..Len(phaseCmds) : phaseCmds[i] \in 0..4095

\* C24: every phase that a step of EncoderCalibration passes to SetMotorPhase
\* lies in 0..4095, whatever the position counter.
C24_CalibrationPhaseInRange ==
    (op = "PerformTune" /\ called = "EncoderCalibration") =>
        \A i \in 1..Len(phaseCmds) : phaseCmds[i] \in 0..4095

\* C25: a run of BasicTuning moves the phase forwards by
\* PhaseIncrement * (NumDummySteps + NumSamples) up to the forward save and back
\* by the same amount: on the step that returns finished desiredStepPhase is
\* what it was before the first step of the run.
C25_PhaseRestored ==
    (op = "PerformTune" /\ called = "BasicTuning") =>
        LET sweepEnd == NumDummySteps + NumSamples + 1
            travel == PhaseIncrement * (NumDummySteps + NumSamples)
            moved == PhaseIncrement *
                       (IF btTicks < sweepEnd THEN btTicks
                        ELSE IF btTicks = sweepEnd THEN btTicks - 1
                        ELSE IF btTicks < 2 * sweepEnd THEN 2 * sweepEnd - 2 - (btTicks - 1)
                        ELSE 0)
        IN /\ desiredStepPhase = (btStartPhase + moved) % 65536
           /\ btTicks = sweepEnd => moved = travel
           /\ finished => desiredStepPhase = btStartPhase

\* a run that started at phase 4000 and passed 4096 on its way returns finished
C25_Witness ==
    /\ op = "PerformTune"
    /\ called = "BasicTuning"
    /\ finished
    /\ btStartPhase = 4000
    /\ desiredStepPhase = 4000

\* C26: a TransceivePacket call that fails at byte position i has stored exactly
\* the i bytes before it to the receive buffer, if there is one, and has written
\* no byte after position i to the data register, nor the byte of position i if
\* it was the transmitter-ready wait that expired; a call that succeeds has
\* written all len bytes.
C26_PartialTransfer ==
    spi.last.op = "TransceivePacket" =>
        IF spi.last.ret
        THEN /\ spi.last.written = spi.last.len
             /\ spi.last.failedWait = "none"
        ELSE /\ spi.last.failedAt \in 0..(spi.last.len - 1)
             /\ spi.last.stored = (IF spi.last.rx THEN spi.last.failedAt ELSE 0)
             /\ spi.last.failedWait \in (IF spi.last.rx THEN {"tx", "rx"} ELSE {"tx"})
             /\ spi.last.written =
                  (IF spi.last.failedWait = "tx" THEN spi.last.failedAt
                   ELSE spi.last.failedAt + 1)

\* the receiver-ready wait of the last byte expires: the byte was written, the
\* bytes before it were stored
C26_Witness ==
    /\ spi.last.op = "TransceivePacket"
    /\ spi.last.rx
    /\ ~spi.last.ret
    /\ spi.last.len = MaxLen
    /\ spi.last.failedWait = "rx"
    /\ spi.last.failedAt = MaxLen - 1
    /\ spi.last.written = MaxLen
    /\ spi.last.stored = MaxLen - 1

\* C27: with a relative encoder a step of EncoderCalibration returns finished at
\* once: it invokes none of ClearLUT, StoreLUTValueForPosition, StoreLUT, it
\* commands no phase, and the tick leaves tuning = 0.
C27_RelativeIsNoOp ==
    (op = "PerformTune" /\ called = "EncoderCalibration" /\ encoder = "relative") =>
        /\ finished
        /\ lutOps = <<>>
        /\ phaseCmds = <<>>
        /\ lut = <<>>
        /\ ec = prev.ec
        /\ tuning = 0

\* the first step of a requested calibration on a relative encoder
C27_Witness ==
    /\ op = "PerformTune"
    /\ called = "EncoderCalibration"
    /\ calledFirst
    /\ encoder = "relative"
    /\ prev.tuning = ENCODER_CALIBRATION_MANOEUVRE
    /\ finished
    /\ tuning = 0

\* C28: a tick with only the step bit pending and the preconditions holding calls
\* AdjustTargetMotorSteps once, with 4, reports completion and leaves tuning = 0;
\* the step manoeuvre is stepped at most once for a request, and nothing else
\* moves the target.
C28_StepOneShot ==
    /\ targetMotorSteps = prev.targetMotorSteps
                            + (IF op = "PerformTune" /\ called = "Step" THEN 4 ELSE 0)
    /\ (op = "PerformTune" /\ prev.tuning = STEP_MANOEUVRE /\ PreconditionsHold) =>
          /\ called = "Step"
          /\ finished
          /\ tuning = 0
    /\ (op = "PerformTune" /\ called = "Step") =>
          /\ "Step" \in prev.fresh
          /\ finished
          /\ tuning = 0

\* the second step request of a session is served by one tick
C28_Witness ==
    /\ op = "PerformTune"
    /\ called = "Step"
    /\ prev.tuning = STEP_MANOEUVRE
    /\ finished
    /\ tuning = 0
    /\ targetMotorSteps = 8

====
